---- MODULE Spec2Model ----
(***************************************************************************)
(* Model of src/src/events.ts: the two event converters getCloudEvent and  *)
(* getBackgroundEvent and the two lookup tables they scan.                 *)
(*                                                                         *)
(* JavaScript values are tagged records: Undefined, Null, Str(s) and       *)
(* Obj(props), props being a function from property names to values.       *)
(* Strings are TLA+ strings, and startsWith / includes / replace work on   *)
(* their characters.  A call of a converter yields a record                *)
(*   [out, val, body, calls]                                               *)
(* out  : "return", "throw" (a TypeError escaped) or "overflow" (the call  *)
(*        depth passed MaxDepth),                                          *)
(* val  : the value returned,                                              *)
(* body : req.body as the call leaves it,                                  *)
(* calls: the converter invocations made, in call order, each with the     *)
(*        branch it took.                                                  *)
(***************************************************************************)
EXTENDS Integers, Sequences, FiniteSets, TLC

VARIABLES req, orig, forwarded, last, ncalls

vars == <<req, orig, forwarded, last, ncalls>>

(* Bounds of the model. *)
MaxCalls == 2
MaxDepth == 3

-----------------------------------------------------------------------------
(* JavaScript values *)

Undefined == [t |-> "undefined"]
Null == [t |-> "null"]
Str(s) == [t |-> "string", v |-> s]
Obj(props) == [t |-> "object", p |-> props]
NoProps == [k \in {} |-> Undefined]

(* typeof v *)
TypeOf(v) == IF v.t = "null" THEN "object" ELSE v.t

(* v.k is a TypeError exactly when v is undefined or null. *)
HasProps(v) == v.t \notin {"undefined", "null"}

(* v[k] for a v that has properties; a missing property reads undefined. *)
Get(v, k) == IF v.t = "object" /\ k \in DOMAIN v.p THEN v.p[k] ELSE Undefined

(* o[k] = x on an object o *)
Set(o, k, x) == Obj((k :> x) @@ o.p)

(* String(v), as a template literal `${v}` computes it *)
JsString(v) ==
    CASE v.t = "string" -> v.v
      [] v.t = "undefined" -> "undefined"
      [] v.t = "null" -> "null"
      [] OTHER -> "[object Object]"

-----------------------------------------------------------------------------
(* String.prototype methods *)

StartsWith(s, p) == Len(s) >= Len(p) /\ SubSeq(s, 1, Len(p)) = p

(* 1-based index of the first occurrence of p in s, 0 when there is none *)
IndexOf(s, p) ==
    LET at == {i \in 1..(Len(s) - Len(p) + 1) : SubSeq(s, i, i + Len(p) - 1) = p}
    IN IF at = {} THEN 0 ELSE CHOOSE i \in at : \A j \in at : i <= j

Includes(s, p) == IndexOf(s, p) # 0

(* s.replace(p, r) with a string pattern: the first occurrence only *)
Replace(s, p, r) ==
    LET i == IndexOf(s, p)
    IN IF i = 0 THEN s
       ELSE SubSeq(s, 1, i - 1) \o r \o SubSeq(s, i + Len(p), Len(s))

-----------------------------------------------------------------------------
(* The lookup tables, in insertion order (the order for...in visits them). *)

typeBackgroundToCloudEvent == <<
    <<"google.pubsub.topic.publish",                              "google.cloud.pubsub.topic.v1.messagePublished">>,
    <<"providers/cloud.pubsub/eventTypes/topic.publish",          "google.cloud.pubsub.topic.v1.messagePublished">>,
    <<"google.storage.object.finalize",                           "google.cloud.storage.object.v1.finalized">>,
    <<"google.storage.object.delete",                             "google.cloud.storage.object.v1.deleted">>,
    <<"google.storage.object.archive",                            "google.cloud.storage.object.v1.archived">>,
    <<"google.storage.object.metadataUpdate",                     "google.cloud.storage.object.v1.metadataUpdated">>,
    <<"providers/cloud.firestore/eventTypes/document.write",      "google.cloud.firestore.document.v1.written">>,
    <<"providers/cloud.firestore/eventTypes/document.create",     "google.cloud.firestore.document.v1.created">>,
    <<"providers/cloud.firestore/eventTypes/document.update",     "google.cloud.firestore.document.v1.updated">>,
    <<"providers/cloud.firestore/eventTypes/document.delete",     "google.cloud.firestore.document.v1.deleted">>,
    <<"providers/firebase.auth/eventTypes/user.create",           "google.firebase.auth.user.v1.created">>,
    <<"providers/firebase.auth/eventTypes/user.delete",           "google.firebase.auth.user.v1.deleted">>,
    <<"providers/google.firebase.analytics/eventTypes/event.log", "google.firebase.analytics.log.v1.written">>,
    <<"providers/google.firebase.database/eventTypes/ref.create", "google.firebase.database.document.v1.created">>,
    <<"providers/google.firebase.database/eventTypes/ref.write",  "google.firebase.database.document.v1.written">>,
    <<"providers/google.firebase.database/eventTypes/ref.update", "google.firebase.database.document.v1.updated">>,
    <<"providers/google.firebase.database/eventTypes/ref.delete", "google.firebase.database.document.v1.deleted">>,
    <<"providers/cloud.storage/eventTypes/object.change",         "google.cloud.storage.object.v1.finalized">> >>

serviceBackgroundToCloudEvent == <<
    <<"providers/cloud.firestore/",           "firestore.googleapis.com">>,
    <<"providers/google.firebase.analytics/", "firebase.googleapis.com">>,
    <<"providers/firebase.auth/",             "firebase.googleapis.com">>,
    <<"providers/google.firebase.database/",  "firebase.googleapis.com">>,
    <<"providers/cloud.pubsub/",              "pubsub.googleapis.com">>,
    <<"providers/cloud.storage/",             "storage.googleapis.com">>,
    <<"google.pubsub",                        "pubsub.googleapis.com">>,
    <<"google.storage",                       "storage.googleapis.com">> >>

(* Least index of a set of table indices, 0 for the empty set: the entry a *)
(* for...in loop with a break stops at.                                    *)
FirstOf(S) == IF S = {} THEN 0 ELSE CHOOSE i \in S : \A j \in S : i <= j

-----------------------------------------------------------------------------
(* The request and the wire-sniffing helpers of ./cloudevents.              *)
(* A request is [binary, structured, ce, body]: binary and structured are   *)
(* what the request's headers indicate, ce is the object holding the        *)
(* attributes of its ce- headers, body is req.body.                         *)

isBinaryCloudEvent(r) == r.binary

isCloudEvent(r) == r.structured

getBinaryCloudEventContext(r) == r.ce

-----------------------------------------------------------------------------
(* Call results *)

Call(fn, branch) == [fn |-> fn, branch |-> branch]

Return(v, body, calls) == [out |-> "return", val |-> v, body |-> body, calls |-> calls]

Throw(body, calls) == [out |-> "throw", val |-> Undefined, body |-> body, calls |-> calls]

Overflow(body, fn) ==
    [out |-> "overflow", val |-> Undefined, body |-> body, calls |-> <<Call(fn, "overflow")>>]

-----------------------------------------------------------------------------
(* The steps of getCloudEvent *)

(* typeBackgroundToCloudEvent[key] *)
TypeLookup(key) ==
    LET i == FirstOf({j \in 1..Len(typeBackgroundToCloudEvent) :
                        typeBackgroundToCloudEvent[j][1] = JsString(key)})
    IN IF i = 0 THEN Undefined ELSE Str(typeBackgroundToCloudEvent[i][2])

(* ServiceForType with the prefixes tested against the resource path       *)
ServiceForType_ByResource(eventType, resource) ==
    LET i == FirstOf({j \in 1..Len(serviceBackgroundToCloudEvent) :
                        StartsWith(resource, serviceBackgroundToCloudEvent[j][1])})
    IN IF i = 0 THEN "" ELSE serviceBackgroundToCloudEvent[i][2]

(* The loop that picks the service of a raw-path resource from the event   *)
(* type: the first table prefix eventType starts with, "" when none does.  *)
ServiceForType(eventType, resource) ==
    LET i == FirstOf({j \in 1..Len(serviceBackgroundToCloudEvent) :
                        StartsWith(eventType, serviceBackgroundToCloudEvent[j][1])})
    IN IF i = 0 THEN "" ELSE serviceBackgroundToCloudEvent[i][2]

(* The envelope built from a background event's context and data, before   *)
(* type and source are set.                                                *)
Skeleton(context, data) ==
    Obj([contenttype |-> Str("application/json"),
         id          |-> Get(context, "eventId"),
         specversion |-> Str("1.0"),
         time        |-> Get(context, "timestamp"),
         data        |-> data])

(* From the background event to the CloudEvent: what the code after the    *)
(* nested getBackgroundEvent call does with its non-null result event.     *)
FromBackground(event, body, calls) ==
    LET context == Get(event, "context")
        data == Get(event, "data")
    IN IF ~HasProps(context) THEN Throw(body, calls)
       ELSE
       LET eventType == Get(context, "eventType")
           resource == Get(context, "resource")
           cloudevent == Set(Skeleton(context, data), "type", TypeLookup(eventType))
       IN IF TypeOf(eventType) = "undefined" THEN Return(Null, body, calls)
          ELSE IF TypeOf(resource) = "undefined" THEN Return(Null, body, calls)
          ELSE IF TypeOf(resource) = "string" THEN
              IF eventType.t # "string" THEN Throw(body, calls)
              ELSE LET service == ServiceForType(eventType.v, resource.v)
                   IN IF service = "" THEN Return(Null, body, calls)
                      ELSE Return(Set(cloudevent, "source",
                                      Str("//" \o service \o "/" \o resource.v)),
                                  body, calls)
          ELSE IF ~HasProps(resource) THEN Throw(body, calls)
          ELSE Return(Set(cloudevent, "source",
                          Str("//" \o JsString(Get(resource, "service"))
                                   \o "/" \o JsString(Get(resource, "name")))),
                      body, calls)

-----------------------------------------------------------------------------
(* The steps of getBackgroundEvent *)

(* LegacyShaped with the negation of isCloudEvent lost *)
LegacyShaped_NoNegation(r) == ~isBinaryCloudEvent(r) /\ isCloudEvent(r)

(* The test that sends a request down the legacy-shaped branch *)
LegacyShaped(r) == ~isBinaryCloudEvent(r) /\ ~isCloudEvent(r)

(* ExtractLegacy without the fallback to the top-level properties *)
ExtractLegacy_NoFallback(event, calls) ==
    IF ~HasProps(event) THEN Throw(event, calls)
    ELSE Return(Obj([context |-> Get(event, "context"), data |-> Get(event, "data")]),
                event, calls)

(* The legacy-shaped branch: context and data of the body; a body with no  *)
(* context is itself the context, and its data property is cleared.        *)
ExtractLegacy(event, calls) ==
    IF ~HasProps(event) THEN Throw(event, calls)
    ELSE LET data == Get(event, "data")
             context == Get(event, "context")
         IN IF context = Undefined
            THEN LET cleared == Set(event, "data", Undefined)
                 IN Return(Obj([context |-> cleared, data |-> data]), cleared, calls)
            ELSE Return(Obj([context |-> context, data |-> data]), event, calls)

(* LegacyTypeFor that keeps the CloudEvent type when no entry matches *)
LegacyTypeFor_Passthrough(ceType) ==
    LET i == FirstOf({j \in 1..Len(typeBackgroundToCloudEvent) :
                        Str(typeBackgroundToCloudEvent[j][2]) = ceType})
    IN IF i = 0 THEN ceType ELSE Str(typeBackgroundToCloudEvent[i][1])

(* The loop over the type table: the first background type whose           *)
(* CloudEvent type is ceType; undefined when there is none.                *)
LegacyTypeFor(ceType) ==
    LET i == FirstOf({j \in 1..Len(typeBackgroundToCloudEvent) :
                        Str(typeBackgroundToCloudEvent[j][2]) = ceType})
    IN IF i = 0 THEN Undefined ELSE Str(typeBackgroundToCloudEvent[i][1])

(* The index of the service table entry the loop over the service table    *)
(* stops at: the first whose CloudEvent service the source includes.       *)
MatchedService(source) ==
    FirstOf({j \in 1..Len(serviceBackgroundToCloudEvent) :
               Includes(source, serviceBackgroundToCloudEvent[j][2])})

(* ResourceTypeTag that reads "@type" only *)
ResourceTypeTag_AtTypeOnly(data) ==
    IF Get(data, "@type") # Undefined THEN Get(data, "@type") ELSE Str("")

(* The resource type tag read from the data: "@type", else "kind", else "" *)
ResourceTypeTag(data) ==
    IF Get(data, "@type") # Undefined THEN Get(data, "@type")
    ELSE IF Get(data, "kind") # Undefined THEN Get(data, "kind")
    ELSE Str("")

(* The source with the matched service's "//service/" removed *)
ResourceName(source, ceService) == Replace(source, "//" \o ceService \o "/", "")

(* context.resource for a matched service *)
ResourceFor(source, ceService, type) ==
    IF type # Str("")
    THEN Obj([type    |-> type,
              service |-> Str(ceService),
              name    |-> Str(ResourceName(source, ceService))])
    ELSE Str(ResourceName(source, ceService))

(* From the CloudEvent to the background event: what the code after the    *)
(* nested getCloudEvent call does with its non-null result cloudevent.     *)
FromCloudEvent(cloudevent, body, calls) ==
    IF ~HasProps(cloudevent) THEN Throw(body, calls)
    ELSE
    LET type == Get(cloudevent, "type")
        source == Get(cloudevent, "source")
        data == Get(cloudevent, "data")
        eventType == LegacyTypeFor(type)
        context == Obj([eventId   |-> Get(cloudevent, "id"),
                        timestamp |-> Get(cloudevent, "time"),
                        eventType |-> eventType])
    IN IF TypeOf(type) = "undefined" THEN Return(Null, body, calls)
       ELSE IF TypeOf(eventType) = "undefined" THEN Return(Null, body, calls)
       ELSE IF TypeOf(source) = "undefined" THEN Return(Null, body, calls)
       ELSE IF source.t # "string" THEN Throw(body, calls)
       ELSE LET i == MatchedService(source.v)
            IN IF i = 0 THEN Return(Null, body, calls)
               ELSE IF ~HasProps(data) THEN Throw(body, calls)
               ELSE Return(Obj([context |-> Set(context, "resource",
                                     ResourceFor(source.v,
                                                 serviceBackgroundToCloudEvent[i][2],
                                                 ResourceTypeTag(data))),
                                data |-> data]),
                           body, calls)

-----------------------------------------------------------------------------
(* The two converters. d is the depth of the call, 1 for a caller's call.  *)

RECURSIVE getCloudEvent(_, _)
RECURSIVE getBackgroundEvent(_, _)

getCloudEvent(r, d) ==
    IF d > MaxDepth THEN Overflow(r.body, "getCloudEvent")
    ELSE IF isBinaryCloudEvent(r)
    THEN Return(Set(getBinaryCloudEventContext(r), "data", r.body), r.body,
                <<Call("getCloudEvent", "binary")>>)
    ELSE IF isCloudEvent(r)
    THEN Return(r.body, r.body, <<Call("getCloudEvent", "structured")>>)
    ELSE LET e == getBackgroundEvent(r, d + 1)
             calls == <<Call("getCloudEvent", "legacy")>> \o e.calls
         IN IF e.out # "return" THEN [e EXCEPT !.calls = calls]
            ELSE IF e.val = Null THEN Return(Null, e.body, calls)
            ELSE FromBackground(e.val, e.body, calls)

getBackgroundEvent(r, d) ==
    IF d > MaxDepth THEN Overflow(r.body, "getBackgroundEvent")
    ELSE IF LegacyShaped(r)
    THEN ExtractLegacy(r.body, <<Call("getBackgroundEvent", "legacy")>>)
    ELSE LET c == getCloudEvent(r, d + 1)
             calls == <<Call("getBackgroundEvent", "cloudevent")>> \o c.calls
         IN IF c.out # "return" THEN [c EXCEPT !.calls = calls]
            ELSE IF c.val = Null THEN Return(Null, c.body, calls)
            ELSE FromCloudEvent(c.val, c.body, calls)

-----------------------------------------------------------------------------
(* The requests the converters are called with *)

LegacyTypes == {typeBackgroundToCloudEvent[i][1] : i \in 1..Len(typeBackgroundToCloudEvent)}

CloudEventTypes == {typeBackgroundToCloudEvent[i][2] : i \in 1..Len(typeBackgroundToCloudEvent)}

Prefixes == {serviceBackgroundToCloudEvent[i][1] : i \in 1..Len(serviceBackgroundToCloudEvent)}

Hostnames == {serviceBackgroundToCloudEvent[i][2] : i \in 1..Len(serviceBackgroundToCloudEvent)}

(* props with property k set to x, or without it when x is undefined *)
With(props, k, x) == IF x = Undefined THEN props ELSE (k :> x) @@ props

(* eventType of a legacy context: every table key, an unmapped type under  *)
(* every service prefix, a type under no prefix, or none                   *)
EventTypeInputs ==
    {Str(k) : k \in LegacyTypes} \cup {Str(p \o "custom") : p \in Prefixes}
        \cup {Str("unknown.type"), Undefined}

(* Raw resource paths; the last holds a service hostname *)
Names == {"foo/bar", "bucket/obj", "docs/firestore.googleapis.com/x"}

ResourceInputs ==
    {Str(n) : n \in Names}
        \cup {Undefined, Null,
              Obj([service |-> Str("storage.googleapis.com"), name |-> Str("bucket/obj")])}

DataInputs ==
    {Undefined,
     Obj(NoProps),
     Obj([kind |-> Str("X")]),
     Obj([kind |-> Str("")]),
     Obj([kind |-> Str("X"), message |-> Str("m")]),
     Obj(("@type" :> Str("T")) @@ [kind |-> Str("X")])}

ContextInputs ==
    {Obj(With(With([eventId |-> Str("e1"), timestamp |-> Str("t1")], "eventType", et),
              "resource", res)) : et \in EventTypeInputs, res \in ResourceInputs}

(* Legacy bodies: context and data side by side, or the context's          *)
(* properties at the top level beside data; no body; a null context.       *)
LegacyBodies ==
    {Obj(With([context |-> c], "data", d)) : c \in ContextInputs, d \in DataInputs}
        \cup {Obj(With(c.p, "data", d)) : c \in ContextInputs, d \in DataInputs}
        \cup {Undefined, Obj([context |-> Null, data |-> Obj(NoProps)])}

TypeInputs == {Str(t) : t \in CloudEventTypes} \cup {Str("com.example.unknown"), Undefined}

SourceInputs ==
    {Str("//" \o h \o "/" \o n) : h \in Hostnames, n \in Names}
        \cup {Str("//example.com/foo/bar"), Undefined}

(* The attributes of a CloudEvent, without its data *)
AttributeInputs ==
    {Obj(With(With([id |-> Str("e1"), time |-> Str("t1"), specversion |-> Str("1.0")],
                   "type", ty), "source", src)) : ty \in TypeInputs, src \in SourceInputs}

Request(binary, structured, ce, body) ==
    [binary |-> binary, structured |-> structured, ce |-> ce, body |-> body]

Requests ==
    {Request(FALSE, FALSE, Obj(NoProps), b) : b \in LegacyBodies}
        \cup {Request(TRUE, s, a, d) : s \in BOOLEAN, a \in AttributeInputs, d \in DataInputs}
        \cup {Request(FALSE, TRUE, Obj(NoProps), Obj(With(a.p, "data", d))) :
                a \in AttributeInputs, d \in DataInputs}
        \cup {Request(FALSE, TRUE, Obj(NoProps), Undefined)}

(* JSON.parse(JSON.stringify(v)): properties holding undefined are dropped *)
RECURSIVE JsonRoundTrip(_)
JsonRoundTrip(v) ==
    IF v.t # "object" THEN v
    ELSE Obj([k \in {x \in DOMAIN v.p : v.p[x] # Undefined} |-> JsonRoundTrip(v.p[k])])

-----------------------------------------------------------------------------
(* The state machine.                                                      *)
(* req       : the request being served, with its body as the calls so far *)
(*             left it                                                     *)
(* orig      : the request as it was received                              *)
(* forwarded : for a request made from getCloudEvent's output, the legacy  *)
(*             request that output was converted from                      *)
(* last      : the last converter call: its function, the request it was   *)
(*             given, and its result                                       *)
(* ncalls    : the converter calls made on req                             *)

NoCall == [fn |-> "none"]

NotForwarded == [some |-> FALSE]

Init ==
    /\ req \in Requests
    /\ orig = req
    /\ forwarded = NotForwarded
    /\ last = NoCall
    /\ ncalls = 0

Record(fn, res) ==
    [fn |-> fn, req |-> req, out |-> res.out, val |-> res.val, calls |-> res.calls]

CallGetCloudEvent ==
    /\ ncalls < MaxCalls
    /\ LET res == getCloudEvent(req, 1)
       IN /\ last' = Record("getCloudEvent", res)
          /\ req' = [req EXCEPT !.body = res.body]
    /\ ncalls' = ncalls + 1
    /\ UNCHANGED <<orig, forwarded>>

CallGetBackgroundEvent ==
    /\ ncalls < MaxCalls
    /\ LET res == getBackgroundEvent(req, 1)
       IN /\ last' = Record("getBackgroundEvent", res)
          /\ req' = [req EXCEPT !.body = res.body]
    /\ ncalls' = ncalls + 1
    /\ UNCHANGED <<orig, forwarded>>

(* The caller sends the CloudEvent that getCloudEvent made of a legacy     *)
(* request on as a structured-mode request.                                *)
Resend ==
    /\ forwarded = NotForwarded
    /\ last.fn = "getCloudEvent"
    /\ LegacyShaped(last.req)
    /\ last.out = "return"
    /\ last.val.t = "object"
    /\ req' = Request(FALSE, TRUE, Obj(NoProps), JsonRoundTrip(last.val))
    /\ orig' = req'
    /\ forwarded' = [some |-> TRUE, req |-> last.req]
    /\ last' = NoCall
    /\ ncalls' = 0

Next ==
    \/ CallGetCloudEvent
    \/ CallGetBackgroundEvent
    \/ Resend

Spec == Init /\ [][Next]_vars

-----------------------------------------------------------------------------
(* Vocabulary of the properties *)

(* The legacy context of a legacy-shaped request: body.context, or the     *)
(* body itself when it has no context property                             *)
ContextOf(r) ==
    IF Get(r.body, "context") = Undefined THEN r.body ELSE Get(r.body, "context")

(* A legacy-shaped request that carries a legacy context *)
LegacyEvent(r) == LegacyShaped(r) /\ r.body.t = "object" /\ ContextOf(r).t = "object"

(* The CloudEvent of a binary or structured request, and its data *)
EventOf(r) == IF isBinaryCloudEvent(r) THEN getBinaryCloudEventContext(r) ELSE r.body

DataOf(r) == IF isBinaryCloudEvent(r) THEN r.body ELSE Get(r.body, "data")

(* A binary or structured request that carries a CloudEvent *)
StandardEvent(r) == ~LegacyShaped(r) /\ EventOf(r).t = "object"

MappedType(ty) == ty \in {Str(t) : t \in CloudEventTypes}

ReturnedNull == last.out = "return" /\ last.val = Null

ReturnedEnvelope == last.out = "return" /\ last.val.t = "object"

(* The resource of the legacy context that the last call returned *)
ResourceReturned == Get(Get(last.val, "context"), "resource")

(* The first key of the type table with the CloudEvent type of key k *)
FirstKeyLike(k) ==
    LET n == CHOOSE i \in 1..Len(typeBackgroundToCloudEvent) :
                 typeBackgroundToCloudEvent[i][1] = k
        m == CHOOSE i \in 1..Len(typeBackgroundToCloudEvent) :
                 /\ typeBackgroundToCloudEvent[i][2] = typeBackgroundToCloudEvent[n][2]
                 /\ \A j \in 1..(i - 1) :
                        typeBackgroundToCloudEvent[j][2] # typeBackgroundToCloudEvent[n][2]
    IN typeBackgroundToCloudEvent[m][1]

NoTag(data) ==
    data.t = "object" /\ Get(data, "@type") = Undefined /\ Get(data, "kind") = Undefined

-----------------------------------------------------------------------------
(* C1: every non-null result of getCloudEvent has a type that is a value   *)
(* of the type table and a source, and every non-null result of            *)
(* getBackgroundEvent has context.eventType and context.resource.          *)
C1_FullyFormedOrNull ==
    (last.fn # "none" /\ last.out = "return" /\ last.val # Null) =>
        /\ last.fn = "getCloudEvent" =>
              /\ MappedType(Get(last.val, "type"))
              /\ Get(last.val, "source") # Undefined
        /\ last.fn = "getBackgroundEvent" =>
              /\ Get(Get(last.val, "context"), "eventType") # Undefined
              /\ Get(Get(last.val, "context"), "resource") # Undefined

(* C2: every call of a converter ends by returning an envelope or null;    *)
(* none ends in a thrown failure.                                          *)
C2_NeverThrows ==
    last.fn # "none" => (ReturnedNull \/ ReturnedEnvelope)

(* The fail conditions of C3 on a legacy context c *)
C3Fails(c) ==
    \/ Get(c, "eventType") = Undefined
    \/ Get(c, "resource") = Undefined
    \/ /\ Get(c, "resource").t = "string"
       /\ Get(c, "eventType").t = "string"
       /\ \A p \in Prefixes : ~StartsWith(Get(c, "eventType").v, p)

(* C3: getCloudEvent of a legacy-shaped request returns null, and does not *)
(* throw, when the legacy context has no eventType, or no resource, or a   *)
(* string resource and an eventType that starts with no service prefix;    *)
(* the context being body.context or the body itself.                      *)
C3_UnconvertibleLegacyIsNull ==
    (last.fn = "getCloudEvent" /\ LegacyEvent(last.req) /\ C3Fails(ContextOf(last.req)))
        => ReturnedNull

(* A context taken from the top level, with a string resource and an       *)
(* eventType under no prefix, was converted to null.                       *)
C3_Witness ==
    /\ last.fn = "getCloudEvent"
    /\ LegacyEvent(last.req)
    /\ Get(last.req.body, "context") = Undefined
    /\ Get(last.req.body, "eventType") = Str("unknown.type")
    /\ Get(last.req.body, "resource") = Str("foo/bar")
    /\ ReturnedNull

(* The fail conditions of C4 on a CloudEvent e *)
C4Fails(e) ==
    \/ Get(e, "type") = Undefined
    \/ ~MappedType(Get(e, "type"))
    \/ Get(e, "source") = Undefined
    \/ /\ Get(e, "source").t = "string"
       /\ \A h \in Hostnames : ~Includes(Get(e, "source").v, h)

(* C4: getBackgroundEvent of a binary or structured CloudEvent returns     *)
(* null when its type is absent or no value of the type table, or its      *)
(* source is absent or includes no service hostname.                       *)
C4_UnresolvedCloudEventIsNull ==
    (last.fn = "getBackgroundEvent" /\ StandardEvent(last.req) /\ C4Fails(EventOf(last.req)))
        => ReturnedNull

(* A CloudEvent of an unmapped type, with a source of a known service and  *)
(* tagged data, was converted to null.                                     *)
C4_Witness ==
    /\ last.fn = "getBackgroundEvent"
    /\ StandardEvent(last.req)
    /\ Get(EventOf(last.req), "type") = Str("com.example.unknown")
    /\ Get(EventOf(last.req), "source") = Str("//storage.googleapis.com/bucket/obj")
    /\ Get(DataOf(last.req), "kind") = Str("X")
    /\ ReturnedNull

(* C5: for every entry (p, s) of the service table, getCloudEvent of a     *)
(* legacy event whose eventType starts with p and whose resource is the    *)
(* string "foo/bar" returns an event with source "//s/foo/bar".            *)
C5_RawPathSource ==
    \A i \in 1..Len(serviceBackgroundToCloudEvent) :
        ( /\ last.fn = "getCloudEvent"
          /\ LegacyEvent(last.req)
          /\ Get(ContextOf(last.req), "eventType").t = "string"
          /\ StartsWith(Get(ContextOf(last.req), "eventType").v,
                        serviceBackgroundToCloudEvent[i][1])
          /\ Get(ContextOf(last.req), "resource") = Str("foo/bar") )
        => /\ ReturnedEnvelope
           /\ Get(last.val, "source")
                = Str("//" \o serviceBackgroundToCloudEvent[i][2] \o "/foo/bar")

(* An event of a type that is no table key, under the firebase.auth        *)
(* prefix, was given the firebase source.                                  *)
C5_Witness ==
    /\ last.fn = "getCloudEvent"
    /\ LegacyEvent(last.req)
    /\ Get(ContextOf(last.req), "eventType") = Str("providers/firebase.auth/custom")
    /\ Get(ContextOf(last.req), "resource") = Str("foo/bar")
    /\ ReturnedEnvelope
    /\ Get(last.val, "source") = Str("//firebase.googleapis.com/foo/bar")

(* The last call was getBackgroundEvent of a CloudEvent of a mapped type   *)
(* with source "//h/n"                                                     *)
ReversedFrom(h, n) ==
    /\ last.fn = "getBackgroundEvent"
    /\ StandardEvent(last.req)
    /\ MappedType(Get(EventOf(last.req), "type"))
    /\ Get(EventOf(last.req), "source") = Str("//" \o h \o "/" \o n)

(* C6: for every source "//s/name", s a service hostname and name any      *)
(* path, getBackgroundEvent of an event of a mapped type whose data has    *)
(* neither "@type" nor "kind" returns context.resource = name.             *)
C6_RawPathResource ==
    \A h \in Hostnames, n \in Names :
        (ReversedFrom(h, n) /\ NoTag(DataOf(last.req)))
            => (ReturnedEnvelope /\ ResourceReturned = Str(n))

RoundTripInput(r) ==
    /\ LegacyEvent(r)
    /\ Get(ContextOf(r), "eventType").t = "string"
    /\ Get(ContextOf(r), "eventType").v \in LegacyTypes
    /\ Get(ContextOf(r), "resource").t = "string"
    /\ NoTag(Get(r.body, "data"))

(* C8: getCloudEvent of such a legacy event succeeds, and                  *)
(* getBackgroundEvent of its output, sent as a structured event, returns   *)
(* the context it came from: the same eventId, timestamp and resource, and *)
(* as eventType the first table key with the same CloudEvent type.         *)
C8_RoundTrip ==
    /\ (last.fn = "getCloudEvent" /\ ncalls = 1 /\ RoundTripInput(last.req))
          => ReturnedEnvelope
    /\ (forwarded.some /\ last.fn = "getBackgroundEvent" /\ ncalls = 1
            /\ RoundTripInput(forwarded.req))
          => /\ ReturnedEnvelope
             /\ \A k \in {"eventId", "timestamp", "resource"} :
                    Get(Get(last.val, "context"), k) = Get(ContextOf(forwarded.req), k)
             /\ Get(Get(last.val, "context"), "eventType")
                    = Str(FirstKeyLike(Get(ContextOf(forwarded.req), "eventType").v))

(* The result the last call would have had as the first call on the        *)
(* request as received                                                     *)
AsFirstCall ==
    IF last.fn = "getCloudEvent" THEN getCloudEvent(orig, 1) ELSE getBackgroundEvent(orig, 1)

(* C9: the calls made on a request do not change what a later call on it   *)
(* returns: every call of a sequence returns the result, data included,    *)
(* that it would return as the first call on the request as received.      *)
C9_Stateless ==
    last.fn # "none" =>
        /\ last.out = AsFirstCall.out
        /\ last.val = AsFirstCall.val

(* C10: no call passes the depth bound; a call of getCloudEvent makes at   *)
(* most one nested call, of getBackgroundEvent, which returns through its  *)
(* legacy-shaped branch; a call of getBackgroundEvent makes at most one    *)
(* nested call, of getCloudEvent, which returns through its binary or      *)
(* structured branch.                                                      *)
C10_BoundedDepth ==
    last.fn # "none" =>
        /\ last.out # "overflow"
        /\ Len(last.calls) \in {1, 2}
        /\ last.calls[1].fn = last.fn
        /\ Len(last.calls) = 2 =>
              /\ last.fn = "getCloudEvent" =>
                    /\ last.calls[1].branch = "legacy"
                    /\ last.calls[2] = Call("getBackgroundEvent", "legacy")
              /\ last.fn = "getBackgroundEvent" =>
                    /\ last.calls[1].branch = "cloudevent"
                    /\ last.calls[2].fn = "getCloudEvent"
                    /\ last.calls[2].branch \in {"binary", "structured"}

(* getBackgroundEvent called getCloudEvent once, on a structured request,  *)
(* and returned an envelope.                                               *)
C10_Witness ==
    /\ last.fn = "getBackgroundEvent"
    /\ Len(last.calls) = 2
    /\ last.calls[2] = Call("getCloudEvent", "structured")
    /\ ReturnedEnvelope

====
